---- MODULE Spec2Model ----
(***************************************************************************)
(* State-machine model of the LM83 hardware-monitoring driver              *)
(* (kernel/chips/lm83.c): chip detection and attach, detach, the cached    *)
(* temperature refresh guarded by update_lock, and the four per-channel    *)
(* /proc handlers (info, read, write of the high limit).                   *)
(*                                                                         *)
(* Processes: one "admin" context (the adapter scan that calls lm83_detect *)
(* and the bus layer that calls lm83_detach_client) and NumThreads caller  *)
(* threads entering the handlers through the control surface.  Every bus   *)
(* transaction is one step; its result is an input of the step.            *)
(***************************************************************************)
EXTENDS Integers, Sequences, FiniteSets, TLC

(* ------------------------------------------------------------------ *)
(* Bounds of the model                                                *)
(* ------------------------------------------------------------------ *)

\* number of caller threads
NumThreads == 2

\* jiffies is an unsigned counter; it is kept modulo JiffiesMod
JiffiesMod == 4

\* ticks per second (scaled down); the staleness limit is HZ + HZ / 2
HZ == 1

\* lm83_id is capped: no detection starts once MaxId ids were handed out
MaxId == 1

(* ------------------------------------------------------------------ *)
(* Program constants                                                  *)
(* ------------------------------------------------------------------ *)

LM83_REG_R_MAN_ID == 254
LM83_REG_R_CONFIG == 3
LM83_REG_R_STATUS1 == 2
LM83_REG_R_STATUS2 == 53
LM83_REG_R_LOCAL_TEMP == 0
LM83_REG_W_LOCAL_HIGH == 11
LM83_REG_R_REMOTE1_TEMP == 48
LM83_REG_W_REMOTE1_HIGH == 80
LM83_REG_R_REMOTE2_TEMP == 1
LM83_REG_W_REMOTE2_HIGH == 13
LM83_REG_R_REMOTE3_TEMP == 49
LM83_REG_W_REMOTE3_HIGH == 82
LM83_INIT_HIGH == 127

\* enum chips { any_chip, lm83 } declared by SENSORS_INSMOD_1(lm83)
lm83 == 1

\* masks of the detection step
MASK_STATUS1 == 168
MASK_STATUS2 == 72
MASK_CONFIG == 65

\* manufacturer id of National Semiconductor
MAN_ID_NATIONAL == 1

\* the four channels: local, remote1, remote2, remote3 (handler order)
Channels == 0 .. 3

TempReg(i) ==
    CASE i = 0 -> LM83_REG_R_LOCAL_TEMP
      [] i = 1 -> LM83_REG_R_REMOTE1_TEMP
      [] i = 2 -> LM83_REG_R_REMOTE2_TEMP
      [] i = 3 -> LM83_REG_R_REMOTE3_TEMP

\* every limit sent to the limit register of the local channel
HighWReg_AlwaysLocal(i) == LM83_REG_W_LOCAL_HIGH

HighWReg(i) ==
    CASE i = 0 -> LM83_REG_W_LOCAL_HIGH
      [] i = 1 -> LM83_REG_W_REMOTE1_HIGH
      [] i = 2 -> LM83_REG_W_REMOTE2_HIGH
      [] i = 3 -> LM83_REG_W_REMOTE3_HIGH

(* ------------------------------------------------------------------ *)
(* Pure helpers                                                       *)
(* ------------------------------------------------------------------ *)

\* assignment of an int to a u8 / unsigned char field
ToU8(x) == x % 256

RECURSIVE AndBits(_, _, _)
AndBits(x, y, n) ==
    IF n = 0 THEN 0
    ELSE (x % 2) * (y % 2) + 2 * AndBits(x \div 2, y \div 2, n - 1)

\* (x & mask) for an int x (two's complement) and a mask below 256
BitAnd(x, mask) == AndBits(x % 256, mask, 8)

\* the register byte taken as it is, without the sign
TEMP_FROM_REG_Unsigned(val) == val

TEMP_FROM_REG(val) == IF val > 127 THEN val - 256 ELSE val

\* TEMP_TO_REG with the wrong offset for a negative value
TEMP_TO_REG_OffByOne(val) == IF val < 0 THEN val + 255 ELSE val

TEMP_TO_REG(val) == IF val < 0 THEN val + 256 ELSE val

\* the staleness limit of lm83_update_client
Window == HZ + HZ \div 2

\* jiffies - last_updated in unsigned arithmetic
Elapsed(j, lu) == (j - lu) % JiffiesMod

\* a condition that holds whatever the cache is
NeedsUpdate_Always(j, lu, v) == TRUE

\* the condition without its jiffies < data->last_updated part
NeedsUpdate_NoBackward(j, lu, v) ==
    \/ Elapsed(j, lu) > Window
    \/ ~v

\* the condition without its !data->valid part
NeedsUpdate_IgnoresValid(j, lu, v) ==
    \/ Elapsed(j, lu) > Window
    \/ j < lu

\* the condition under which lm83_update_client re-reads the chip
NeedsUpdate(j, lu, v) ==
    \/ Elapsed(j, lu) > Window
    \/ j < lu
    \/ ~v

(* ------------------------------------------------------------------ *)
(* Inputs                                                             *)
(* ------------------------------------------------------------------ *)

Threads == 1 .. NumThreads

\* the value i2c_smbus_read_byte_data / write_byte_data return on failure
BUS_ERROR == -1

\* bytes the temperature registers may hold
TempBytes == {80, 156}

\* bytes the status, config and manufacturer-id registers may hold:
\* 16 passes every mask, 1 passes the status masks, fails the config mask
\* and is the manufacturer id, 200 fails every mask
DetectBytes == {1, 16, 200}

\* forced kinds handed to lm83_detect: none, skip detection, exact kinds
Kinds == {-1, 0, 1, 2}

\* limits written through the control surface
WriteVals == {-128, -10, 127}

\* every limit a signed byte can hold
SignedBytes == -128 .. 127

\* fill bytes of the memory kmalloc returns (not zeroed): cleared, slab poison
GarbageBytes == {0, 90}

ENOMEM == 12

\* non-zero results of i2c_attach_client / i2c_detach_client
LayerErrors == {-16}

\* negative results of i2c_register_entry
EntryErrors == {-12}

(* ------------------------------------------------------------------ *)
(* State                                                              *)
(* ------------------------------------------------------------------ *)

VARIABLES
    jiffies,        \* the tick counter
    lm83_id,        \* static int lm83_id
    alloc,          \* new_client (client + lm83_data) is allocated
    attached,       \* client is registered with the bus layer
    entry,          \* the directory entry (four channels) is registered
    valid,          \* data->valid
    last_updated,   \* data->last_updated
    temp,           \* data->local_temp .. remote3_temp, by channel
    high,           \* data->local_high .. remote3_high, by channel
    update_lock,    \* data->update_lock: 0 when free, else the holder
    apc,            \* position of the admin context
    call,           \* the call the admin context is in: "", "detect", "detach"
    id0,            \* lm83_id when that call was entered
    forced,         \* the kind lm83_detect was called with
    kind,           \* lm83_detect: parameter kind
    err,            \* lm83_detect / lm83_detach_client: err
    ret,            \* value the last admin call returned
    msg,            \* last unconditional printk of the admin call
    dlog,           \* bus transactions of the current admin call
    pc,             \* position of each caller thread
    chan,           \* channel of the handler each thread is in
    arg,            \* results[0] handed to a write
    own,            \* byte a writer stored into data->..._high
    log,            \* bus transactions of each thread's current call
    res,            \* <<*nrels_mag, results[0], results[1]>> of the call
    dangling,       \* threads inside a handler when the client was freed
    crashed,        \* a freed client was accessed
    snap,           \* <<valid, last_updated, temp>> when the running refresh began
    wrote,          \* per channel: the limit last stored by a write, if any
    age,            \* ticks since the last refresh was stamped (capped)
    wrapped,        \* jiffies wrapped since the last refresh was stamped
    seen            \* per channel, <<results[0], results[1]>> as the cache gave
                    \* them when the read that did the last refresh fetched its own

cache == <<valid, last_updated, temp, high, update_lock>>
client == <<alloc, attached, entry>>
admin == <<apc, call, id0, forced, kind, err, ret, msg, dlog>>
callers == <<pc, chan, arg, own, log, res>>
ghost == <<snap, age, wrapped, seen>>
vars == <<jiffies, lm83_id, client, cache, admin, callers, dangling, crashed, ghost, wrote>>

\* results of a handler that has not returned
NoRes == [nrels |-> 0, r0 |-> 0, r1 |-> 0]

ZeroBytes == [i \in Channels |-> 0]

\* a bus transaction as the bus stub records it
RdRec(reg, r) == [op |-> "r", reg |-> reg, val |-> 0, ret |-> r]
WrRec(reg, v, r) == [op |-> "w", reg |-> reg, val |-> v, ret |-> r]

\* threads that are inside a handler and will touch the client again
InFlight == {t \in Threads : pc[t] \notin {"idle", "ret"}}

(* ------------------------------------------------------------------ *)
(* Initial state: module loaded, no client                            *)
(* ------------------------------------------------------------------ *)

Init ==
    /\ jiffies = 0
    /\ lm83_id = 0
    /\ alloc = FALSE
    /\ attached = FALSE
    /\ entry = FALSE
    /\ valid = FALSE
    /\ last_updated = 0
    /\ temp = ZeroBytes
    /\ high = ZeroBytes
    /\ update_lock = 0
    /\ apc = "idle"
    /\ call = ""
    /\ id0 = 0
    /\ forced = 0
    /\ kind = 0
    /\ err = 0
    /\ ret = 0
    /\ msg = ""
    /\ dlog = <<>>
    /\ pc = [t \in Threads |-> "idle"]
    /\ chan = [t \in Threads |-> 0]
    /\ arg = [t \in Threads |-> 0]
    /\ own = [t \in Threads |-> 0]
    /\ log = [t \in Threads |-> <<>>]
    /\ res = [t \in Threads |-> NoRes]
    /\ dangling = {}
    /\ crashed = FALSE
    /\ snap = <<>>
    /\ wrote = [i \in Channels |-> {}]
    /\ age = 0
    /\ wrapped = FALSE
    /\ seen = <<>>

(* ------------------------------------------------------------------ *)
(* The clock                                                          *)
(* ------------------------------------------------------------------ *)

Tick ==
    /\ ~crashed
    /\ jiffies' = (jiffies + 1) % JiffiesMod
    /\ age' = IF valid /\ age <= Window THEN age + 1 ELSE age
    /\ wrapped' = (wrapped \/ (valid /\ jiffies + 1 = JiffiesMod))
    /\ UNCHANGED <<lm83_id, client, cache, admin, callers, dangling, crashed, snap, seen>>
    /\ UNCHANGED wrote

(* ------------------------------------------------------------------ *)
(* lm83_detect                                                        *)
(* ------------------------------------------------------------------ *)

\* kfree(new_client): the memory is gone, handlers still inside dangle
Freed ==
    /\ alloc' = FALSE
    /\ valid' = FALSE
    /\ last_updated' = 0
    /\ temp' = ZeroBytes
    /\ high' = ZeroBytes
    /\ update_lock' = 0
    /\ snap' = <<>>
    /\ wrote' = [i \in Channels |-> {}]
    /\ age' = 0
    /\ wrapped' = FALSE
    /\ seen' = <<>>
    /\ dangling' = InFlight

\* the detection step taken whatever the kind
FirstStep_AlwaysDetect(k) == "status1"

\* where lm83_detect goes once the client is allocated: detection for a
\* negative kind, identification for kind 0, neither for a positive kind
FirstStep(k) == IF k < 0 THEN "status1" ELSE IF k <= 0 THEN "ident" ELSE "fill"

\* entry of lm83_detect up to the first bus transaction
DetectStart(k, funcOk, memOk, glu, ghigh) ==
    /\ ~crashed
    /\ apc = "idle"
    /\ ~alloc
    /\ ~attached
    /\ lm83_id < MaxId
    /\ call' = "detect"
    /\ id0' = lm83_id
    /\ forced' = k
    /\ dlog' = <<>>
    /\ IF ~funcOk
       THEN /\ apc' = "ret"
            /\ ret' = 0
            /\ UNCHANGED <<alloc, last_updated, high, kind, err, msg>>
       ELSE IF ~memOk
       THEN /\ apc' = "ret"
            /\ ret' = -ENOMEM
            /\ msg' = "Out of memory"
            /\ UNCHANGED <<alloc, last_updated, high, kind, err>>
       ELSE /\ alloc' = TRUE
            /\ last_updated' = glu
            /\ high' = ghigh
            /\ kind' = k
            /\ err' = 0
            /\ apc' = FirstStep(k)
            /\ UNCHANGED <<ret, msg>>
    /\ UNCHANGED <<jiffies, lm83_id, attached, entry, valid, temp, update_lock,
                   callers, dangling, crashed, ghost>>
    /\ UNCHANGED wrote

\* the register test failing only when every masked bit is set
DetProbe_AllBits(at, reg, mask, next, r) ==
    /\ ~crashed
    /\ apc = at
    /\ dlog' = Append(dlog, RdRec(reg, r))
    /\ apc' = IF BitAnd(r, mask) = mask THEN "error1" ELSE next
    /\ UNCHANGED <<jiffies, lm83_id, client, cache, call, id0, forced, kind, err, ret, msg,
                   callers, dangling, crashed, ghost>>
    /\ UNCHANGED wrote

\* one register test of the detection step
DetProbe(at, reg, mask, next, r) ==
    /\ ~crashed
    /\ apc = at
    /\ dlog' = Append(dlog, RdRec(reg, r))
    /\ apc' = IF BitAnd(r, mask) # 0 THEN "error1" ELSE next
    /\ UNCHANGED <<jiffies, lm83_id, client, cache, call, id0, forced, kind, err, ret, msg,
                   callers, dangling, crashed, ghost>>
    /\ UNCHANGED wrote

DetStatus1(r) == DetProbe("status1", LM83_REG_R_STATUS1, MASK_STATUS1, "status2", r)

DetStatus2(r) == DetProbe("status2", LM83_REG_R_STATUS2, MASK_STATUS2, "config", r)

DetConfig(r) == DetProbe("config", LM83_REG_R_CONFIG, MASK_CONFIG, "ident", r)

\* identification that takes any manufacturer for National Semiconductor
Identify_Any(k, r) == lm83

\* the kind after the identification step read man_id
Identify(k, r) == IF ToU8(r) = MAN_ID_NATIONAL THEN lm83 ELSE k

DetIdent(r) ==
    /\ ~crashed
    /\ apc = "ident"
    /\ dlog' = Append(dlog, RdRec(LM83_REG_R_MAN_ID, r))
    /\ kind' = Identify(kind, r)
    /\ apc' = "fill"
    /\ UNCHANGED <<jiffies, lm83_id, client, cache, call, id0, forced, err, ret, msg,
                   callers, dangling, crashed, ghost>>
    /\ UNCHANGED wrote

\* the checks on kind, then the remaining client fields
DetFill ==
    /\ ~crashed
    /\ apc = "fill"
    /\ IF kind <= 0
       THEN /\ msg' = "Unsupported chip"
            /\ apc' = "error1"
            /\ UNCHANGED <<lm83_id, valid, update_lock>>
       ELSE IF kind # lm83
       THEN /\ msg' = "Unknown kind"
            /\ apc' = "error1"
            /\ UNCHANGED <<lm83_id, valid, update_lock>>
       ELSE /\ lm83_id' = lm83_id + 1
            /\ valid' = FALSE
            /\ update_lock' = 0
            /\ apc' = "attach"
            /\ UNCHANGED msg
    /\ UNCHANGED <<jiffies, client, last_updated, temp, high, call, id0, forced, kind, err, ret, dlog,
                   callers, dangling, crashed, ghost>>
    /\ UNCHANGED wrote

\* i2c_attach_client
DetAttach(r) ==
    /\ ~crashed
    /\ apc = "attach"
    /\ err' = r
    /\ attached' = (r = 0)
    /\ apc' = IF r # 0 THEN "error1" ELSE "register"
    /\ UNCHANGED <<jiffies, lm83_id, alloc, entry, cache, call, id0, forced, kind, ret, msg, dlog,
                   callers, dangling, crashed, ghost>>
    /\ UNCHANGED wrote

\* i2c_register_entry
DetRegister(r) ==
    /\ ~crashed
    /\ apc = "register"
    /\ err' = r
    /\ entry' = (r >= 0)
    /\ apc' = IF r < 0 THEN "error2" ELSE "init0"
    /\ UNCHANGED <<jiffies, lm83_id, alloc, attached, cache, call, id0, forced, kind, ret, msg, dlog,
                   callers, dangling, crashed, ghost>>
    /\ UNCHANGED wrote

InitPc(i) == <<"init0", "init1", "init2", "init3">>[i + 1]

\* lm83_init_client: one write per channel, results dropped; then return 0
InitWrite(i, r) ==
    /\ ~crashed
    /\ apc = InitPc(i)
    /\ dlog' = Append(dlog, WrRec(HighWReg(i), TEMP_TO_REG(LM83_INIT_HIGH), r))
    /\ IF i = 3
       THEN apc' = "ret" /\ ret' = 0
       ELSE apc' = InitPc(i + 1) /\ UNCHANGED ret
    /\ UNCHANGED <<jiffies, lm83_id, client, cache, call, id0, forced, kind, err, msg,
                   callers, dangling, crashed, ghost>>
    /\ UNCHANGED wrote

\* ERROR2: i2c_detach_client, its result dropped
DetError2(r) ==
    /\ ~crashed
    /\ apc = "error2"
    /\ attached' = (r # 0)
    /\ apc' = "error1"
    /\ UNCHANGED <<jiffies, lm83_id, alloc, entry, cache, call, id0, forced, kind, err, ret, msg, dlog,
                   callers, dangling, crashed, ghost>>
    /\ UNCHANGED wrote

\* ERROR1: kfree(new_client); return err
DetError1 ==
    /\ ~crashed
    /\ apc = "error1"
    /\ Freed
    /\ ret' = err
    /\ apc' = "ret"
    /\ UNCHANGED <<jiffies, lm83_id, attached, entry, call, id0, forced, kind, err, msg, dlog,
                   callers, crashed>>

\* the admin call is over; its locals are gone
AdminReturn ==
    /\ ~crashed
    /\ apc = "ret"
    /\ apc' = "idle"
    /\ call' = ""
    /\ id0' = 0
    /\ forced' = 0
    /\ kind' = 0
    /\ err' = 0
    /\ ret' = 0
    /\ msg' = ""
    /\ dlog' = <<>>
    /\ UNCHANGED <<jiffies, lm83_id, client, cache, callers, dangling, crashed, ghost>>
    /\ UNCHANGED wrote

(* ------------------------------------------------------------------ *)
(* lm83_detach_client                                                 *)
(* ------------------------------------------------------------------ *)

\* i2c_deregister_entry(data->sysctl_id)
DetachStart ==
    /\ ~crashed
    /\ apc = "idle"
    /\ attached
    /\ IF alloc
       THEN /\ entry' = FALSE
            /\ apc' = "detach"
            /\ call' = "detach"
            /\ id0' = lm83_id
            /\ forced' = 0
            /\ UNCHANGED crashed
       ELSE /\ crashed' = TRUE
            /\ UNCHANGED <<entry, apc, call, id0, forced>>
    /\ UNCHANGED <<jiffies, lm83_id, alloc, attached, cache, kind, err, ret, msg, dlog,
                   callers, dangling, ghost>>
    /\ UNCHANGED wrote

\* i2c_detach_client; on failure the error is returned, nothing is freed
DetachBus(r) ==
    /\ ~crashed
    /\ apc = "detach"
    /\ err' = r
    /\ IF r # 0
       THEN /\ msg' = "Client deregistration failed"
            /\ ret' = r
            /\ apc' = "ret"
            /\ UNCHANGED attached
       ELSE /\ attached' = FALSE
            /\ apc' = "free"
            /\ UNCHANGED <<msg, ret>>
    /\ UNCHANGED <<jiffies, lm83_id, alloc, entry, cache, call, id0, forced, kind, dlog,
                   callers, dangling, crashed, ghost>>
    /\ UNCHANGED wrote

\* kfree(client); return 0
DetachFree ==
    /\ ~crashed
    /\ apc = "free"
    /\ Freed
    /\ ret' = 0
    /\ apc' = "ret"
    /\ UNCHANGED <<jiffies, lm83_id, attached, entry, call, id0, forced, kind, err, msg, dlog,
                   callers, crashed>>

(* ------------------------------------------------------------------ *)
(* The channel handlers lm83_local_temp .. lm83_remote3_temp          *)
(* ------------------------------------------------------------------ *)

\* a thread may take a step of its handler
Runs(t, at) ==
    /\ ~crashed
    /\ pc[t] = at
    /\ t \notin dangling

\* operation == SENSORS_PROC_REAL_INFO
Info(t, i) ==
    /\ Runs(t, "idle")
    /\ entry
    /\ pc' = [pc EXCEPT ![t] = "ret"]
    /\ chan' = [chan EXCEPT ![t] = i]
    /\ res' = [res EXCEPT ![t] = [nrels |-> 0, r0 |-> 0, r1 |-> 0]]
    /\ UNCHANGED <<jiffies, lm83_id, client, cache, admin, arg, own, log,
                   dangling, crashed, ghost>>
    /\ UNCHANGED wrote

\* operation == SENSORS_PROC_REAL_READ: enter lm83_update_client
ReadEnter(t, i) ==
    /\ Runs(t, "idle")
    /\ entry
    /\ pc' = [pc EXCEPT ![t] = "down"]
    /\ chan' = [chan EXCEPT ![t] = i]
    /\ UNCHANGED <<jiffies, lm83_id, client, cache, admin, arg, own, log, res,
                   dangling, crashed, ghost>>
    /\ UNCHANGED wrote

\* down that does not wait for the holder
Down_NoWait(t) ==
    /\ Runs(t, "down")
    /\ update_lock' = t
    /\ pc' = [pc EXCEPT ![t] = "check"]
    /\ UNCHANGED <<jiffies, lm83_id, client, valid, last_updated, temp, high, admin,
                   chan, arg, own, log, res, dangling, crashed, ghost>>
    /\ UNCHANGED wrote

\* down(&data->update_lock)
Down(t) ==
    /\ Runs(t, "down")
    /\ update_lock = 0
    /\ update_lock' = t
    /\ pc' = [pc EXCEPT ![t] = "check"]
    /\ UNCHANGED <<jiffies, lm83_id, client, valid, last_updated, temp, high, admin,
                   chan, arg, own, log, res, dangling, crashed, ghost>>
    /\ UNCHANGED wrote

\* the test made once the lock is held
Check(t) ==
    /\ Runs(t, "check")
    /\ pc' = [pc EXCEPT ![t] =
                 IF NeedsUpdate(jiffies, last_updated, valid) THEN "rd" ELSE "up"]
    /\ snap' = IF NeedsUpdate(jiffies, last_updated, valid)
               THEN <<valid, last_updated, temp>> ELSE snap
    /\ UNCHANGED <<jiffies, lm83_id, client, cache, admin, chan, arg, own, log, res,
                   dangling, crashed, age, wrapped, seen>>
    /\ UNCHANGED wrote

\* what a temperature field holds after the result r of a bus read is assigned
Latch(old, r) == ToU8(r)

\* data->..._temp = lm83_read_value(client, ...), in channel order
ReadTemp(t, r) ==
    LET k == Len(log[t]) IN
    /\ Runs(t, "rd")
    /\ temp' = [temp EXCEPT ![k] = Latch(temp[k], r)]
    /\ log' = [log EXCEPT ![t] = Append(log[t], RdRec(TempReg(k), r))]
    /\ pc' = [pc EXCEPT ![t] = IF k = 3 THEN "stamp" ELSE "rd"]
    /\ UNCHANGED <<jiffies, lm83_id, client, valid, last_updated, high, update_lock,
                   admin, chan, arg, own, res, dangling, crashed, ghost>>
    /\ UNCHANGED wrote

\* data->last_updated = jiffies; data->valid = 1
Stamp(t) ==
    /\ Runs(t, "stamp")
    /\ last_updated' = jiffies
    /\ valid' = TRUE
    /\ age' = 0
    /\ wrapped' = FALSE
    /\ seen' = <<>>
    /\ pc' = [pc EXCEPT ![t] = "up"]
    /\ UNCHANGED <<jiffies, lm83_id, client, temp, high, update_lock, admin,
                   chan, arg, own, log, res, dangling, crashed, snap>>
    /\ UNCHANGED wrote

\* leaving lm83_update_client without up
Up_KeepsLock(t) ==
    /\ Runs(t, "up")
    /\ pc' = [pc EXCEPT ![t] = "fetch"]
    /\ UNCHANGED <<jiffies, lm83_id, client, cache, admin,
                   chan, arg, own, log, res, dangling, crashed, age, wrapped, seen>>
    /\ snap' = <<>>
    /\ UNCHANGED wrote

\* up(&data->update_lock)
Up(t) ==
    /\ Runs(t, "up")
    /\ update_lock' = 0
    /\ pc' = [pc EXCEPT ![t] = "fetch"]
    /\ UNCHANGED <<jiffies, lm83_id, client, valid, last_updated, temp, high, admin,
                   chan, arg, own, log, res, dangling, crashed, age, wrapped, seen>>
    /\ snap' = <<>>
    /\ UNCHANGED wrote

\* results[0], results[1] and *nrels_mag of a read
Fetch(t) ==
    /\ Runs(t, "fetch")
    /\ res' = [res EXCEPT ![t] = [nrels |-> 2,
                                   r0 |-> TEMP_FROM_REG(temp[chan[t]]),
                                   r1 |-> TEMP_FROM_REG(high[chan[t]])]]
    /\ pc' = [pc EXCEPT ![t] = "ret"]
    /\ seen' = IF Len(log[t]) = 4
               THEN [i \in Channels |-> <<TEMP_FROM_REG(temp[i]), TEMP_FROM_REG(high[i])>>]
               ELSE seen
    /\ UNCHANGED <<jiffies, lm83_id, client, cache, admin, chan, arg, own, log,
                   dangling, crashed, snap, age, wrapped>>
    /\ UNCHANGED wrote

\* operation == SENSORS_PROC_REAL_WRITE with *nrels_mag = n, results[0] = v
WriteEnter(t, i, n, v) ==
    /\ Runs(t, "idle")
    /\ entry
    /\ chan' = [chan EXCEPT ![t] = i]
    /\ arg' = [arg EXCEPT ![t] = v]
    /\ res' = [res EXCEPT ![t] = [nrels |-> n, r0 |-> v, r1 |-> 0]]
    /\ pc' = [pc EXCEPT ![t] = IF n >= 1 THEN "store" ELSE "ret"]
    /\ UNCHANGED <<jiffies, lm83_id, client, cache, admin, own, log,
                   dangling, crashed, ghost>>
    /\ UNCHANGED wrote

\* the byte data->..._high holds after TEMP_TO_REG(results[0]) is assigned
HighByte(v) == ToU8(TEMP_TO_REG(v))

\* data->..._high = TEMP_TO_REG(results[0])
Store(t) ==
    /\ Runs(t, "store")
    /\ high' = [high EXCEPT ![chan[t]] = HighByte(arg[t])]
    /\ own' = [own EXCEPT ![t] = HighByte(arg[t])]
    /\ pc' = [pc EXCEPT ![t] = "send"]
    /\ UNCHANGED <<jiffies, lm83_id, client, valid, last_updated, temp, update_lock,
                   admin, chan, arg, log, res, dangling, crashed, snap, age, wrapped>>
    /\ seen' = IF seen = <<>> THEN seen ELSE [seen EXCEPT ![chan[t]] = <<>>]
    /\ wrote' = [wrote EXCEPT ![chan[t]] = {arg[t]}]

\* the bytes lm83_write_value may be handed: the field is read again without
\* any lock, so it is the byte just stored or what the field holds by now
SendBytes(t) == {own[t], high[chan[t]]}

\* lm83_write_value(client, LM83_REG_W_..._HIGH, data->..._high), result dropped
Send(t, b, r) ==
    /\ Runs(t, "send")
    /\ log' = [log EXCEPT ![t] = Append(log[t], WrRec(HighWReg(chan[t]), b, r))]
    /\ pc' = [pc EXCEPT ![t] = "ret"]
    /\ UNCHANGED <<jiffies, lm83_id, client, cache, admin, chan, arg, own, res,
                   dangling, crashed, ghost>>
    /\ UNCHANGED wrote

\* the handler returns to the control surface
Return(t) ==
    /\ Runs(t, "ret")
    /\ pc' = [pc EXCEPT ![t] = "idle"]
    /\ chan' = [chan EXCEPT ![t] = 0]
    /\ arg' = [arg EXCEPT ![t] = 0]
    /\ own' = [own EXCEPT ![t] = 0]
    /\ log' = [log EXCEPT ![t] = <<>>]
    /\ res' = [res EXCEPT ![t] = NoRes]
    /\ UNCHANGED <<jiffies, lm83_id, client, cache, admin, dangling, crashed, ghost>>
    /\ UNCHANGED wrote

\* a handler goes on after lm83_detach_client freed the client
UseAfterFree(t) ==
    /\ ~crashed
    /\ t \in dangling
    /\ crashed' = TRUE
    /\ UNCHANGED <<jiffies, lm83_id, client, cache, admin, callers, dangling, ghost>>
    /\ UNCHANGED wrote

(* ------------------------------------------------------------------ *)
(* The driver                                                         *)
(* ------------------------------------------------------------------ *)

\* results of the bus transactions and of the two layers
BusReads == TempBytes \cup {BUS_ERROR}
DetectReads == DetectBytes \cup {BUS_ERROR}
BusWrites == {0, BUS_ERROR}
AttachResults == {0} \cup LayerErrors
EntryResults == {0} \cup EntryErrors

\* what the limit fields hold in fresh memory: one fill byte throughout
Garbage == {[i \in Channels |-> b] : b \in GarbageBytes}

\* lm83_detect, step by step
Detect(G) ==
    \/ \E k \in Kinds, f, m \in BOOLEAN, glu \in G, gh \in Garbage :
          DetectStart(k, f, m, glu, gh)
    \/ \E r \in DetectReads : DetStatus1(r)
    \/ \E r \in DetectReads : DetStatus2(r)
    \/ \E r \in DetectReads : DetConfig(r)
    \/ \E r \in DetectReads : DetIdent(r)
    \/ DetFill
    \/ \E r \in AttachResults : DetAttach(r)
    \/ \E r \in EntryResults : DetRegister(r)
    \/ \E i \in Channels, r \in BusWrites : InitWrite(i, r)
    \/ \E r \in AttachResults : DetError2(r)
    \/ DetError1

\* lm83_detach_client, step by step
Detach ==
    \/ DetachStart
    \/ \E r \in AttachResults : DetachBus(r)
    \/ DetachFree

\* a read through the handlers of the channels C, by the threads T, with the
\* bus results R
Reads(T, C, R) ==
    \/ \E t \in T, i \in C : ReadEnter(t, i)
    \/ \E t \in T : Down(t)
    \/ \E t \in T : Check(t)
    \/ \E t \in T, r \in R : ReadTemp(t, r)
    \/ \E t \in T : Stamp(t)
    \/ \E t \in T : Up(t)
    \/ \E t \in T : Fetch(t)
    \/ \E t \in T : Return(t)

\* a write through one of the four handlers
Writes(T) ==
    \/ \E t \in T, i \in Channels, n \in {0, 1}, v \in WriteVals : WriteEnter(t, i, n, v)
    \/ \E t \in T : Store(t)
    \/ \E t \in T, r \in BusWrites : \E b \in SendBytes(t) : Send(t, b, r)

Next ==
    \/ Tick
    \/ Detect(0 .. JiffiesMod - 1)
    \/ Detach
    \/ AdminReturn
    \/ Reads(Threads, Channels, BusReads)
    \/ Writes(Threads)
    \/ \E t \in Threads, i \in Channels : Info(t, i)
    \/ \E t \in Threads : UseAfterFree(t)

\* the whole driver
Spec == Init /\ [][Next]_vars

(* ------------------------------------------------------------------ *)
(* Restrictions of the driver that TLC explores in full               *)
(* ------------------------------------------------------------------ *)

\* the state lm83_detect leaves behind when it returned 0 with a client
Attached(J, H) ==
    /\ jiffies \in J
    /\ lm83_id = 1
    /\ alloc = TRUE
    /\ attached = TRUE
    /\ entry = TRUE
    /\ valid = FALSE
    /\ last_updated \in 0 .. JiffiesMod - 1
    /\ temp = ZeroBytes
    /\ high \in H
    /\ update_lock = 0
    /\ apc = "idle"
    /\ call = ""
    /\ id0 = 0
    /\ forced = 0
    /\ kind = 0
    /\ err = 0
    /\ ret = 0
    /\ msg = ""
    /\ dlog = <<>>
    /\ pc = [t \in Threads |-> "idle"]
    /\ chan = [t \in Threads |-> 0]
    /\ arg = [t \in Threads |-> 0]
    /\ own = [t \in Threads |-> 0]
    /\ log = [t \in Threads |-> <<>>]
    /\ res = [t \in Threads |-> NoRes]
    /\ dangling = {}
    /\ crashed = FALSE
    /\ snap = <<>>
    /\ wrote = [i \in Channels |-> {}]
    /\ age = 0
    /\ wrapped = FALSE
    /\ seen = <<>>

\* one caller
Solo == {1}

\* the life of a client: detection, attach, reads by one caller, detach
LifeNext ==
    \/ Detect({0, JiffiesMod - 1})
    \/ Detach
    \/ AdminReturn
    \/ Reads(Solo, Channels, TempBytes)
    \/ \E t \in Solo : UseAfterFree(t)

SpecLife == Init /\ [][LifeNext]_vars

\* an attached client read by all threads, through the handlers of the first
\* and of the last channel, while the clock runs; the bus works
RaceNext ==
    \/ Tick
    \/ Reads(Threads, {0, 3}, {80})

SpecRace == Attached(0 .. JiffiesMod - 1, {ZeroBytes}) /\ [][RaceNext]_vars

\* an attached client read by one caller while the clock runs; the bus may fail
CacheNext ==
    \/ Tick
    \/ Reads(Solo, Channels, {156, BUS_ERROR})

SpecCache == Attached(0 .. JiffiesMod - 1, Garbage) /\ [][CacheNext]_vars

\* an attached client whose limits one caller writes and reads back
LimitsNext ==
    \/ Reads(Solo, Channels, {80})
    \/ Writes(Solo)
    \/ \E t \in Solo, i \in Channels : Info(t, i)

SpecLimits == Attached({0}, Garbage) /\ [][LimitsNext]_vars

\* an attached client read by all threads through the handlers of the first
\* and of the last channel within one tick; the bus may fail
MutexNext == Reads(Threads, {0, 3}, {80, BUS_ERROR})

SpecMutex == Attached(0 .. JiffiesMod - 1, {ZeroBytes}) /\ [][MutexNext]_vars

\* the limit of the local channel written once, with any signed byte, and read
\* back by one caller; the bus works
CodecNext ==
    \/ \E t \in Solo, v \in SignedBytes : wrote[0] = {} /\ WriteEnter(t, 0, 1, v)
    \/ \E t \in Solo : Store(t)
    \/ \E t \in Solo : \E b \in SendBytes(t) : Send(t, b, 0)
    \/ Reads(Solo, {0}, {80})

SpecCodec == Attached({0}, {ZeroBytes}) /\ [][CodecNext]_vars

(* ------------------------------------------------------------------ *)
(* Vocabulary of the properties                                       *)
(* ------------------------------------------------------------------ *)

\* the bus reads / writes recorded in a log that failed
FailedReads(l) == {k \in 1 .. Len(l) : l[k].op = "r" /\ l[k].ret < 0}
FailedWrites(l) == {k \in 1 .. Len(l) : l[k].op = "w" /\ l[k].ret < 0}

\* thread t is in, or has just finished, a read / a write that carried a value
InRead(t) == pc[t] \in {"down", "check", "rd", "stamp", "up", "fetch"}
ReadDone(t) == pc[t] = "ret" /\ res[t].nrels = 2
WriteDone(t) == pc[t] = "ret" /\ Len(log[t]) = 1 /\ log[t][1].op = "w"

\* thread t is issuing the bus reads of a refresh
Refreshing(t) == pc[t] \in {"rd", "stamp"}

\* the cache is stale by the clock itself: never filled, older than the limit,
\* or the counter went round since the last refresh
TrulyStale == ~valid \/ age > Window \/ wrapped

\* lm83_detect / lm83_detach_client has returned, its result is still visible
DetectOver == call = "detect" /\ apc = "ret"
DetachOver == call = "detach" /\ apc = "ret"

\* nothing of a client is left: no memory, no registration
NothingRetained == ~alloc /\ ~attached /\ ~entry

\* some bit of the mask m is set in the byte x
Masked(x, m) == \E b \in 0 .. 7 : ((x \div (2 ^ b)) % 2 = 1) /\ ((m \div (2 ^ b)) % 2 = 1)

\* the detection step read a status or config byte with a masked bit set
MaskHits ==
    {k \in 1 .. Len(dlog) :
        /\ dlog[k].op = "r"
        /\ dlog[k].ret >= 0
        /\ \/ dlog[k].reg = LM83_REG_R_STATUS1 /\ Masked(dlog[k].ret, MASK_STATUS1)
           \/ dlog[k].reg = LM83_REG_R_STATUS2 /\ Masked(dlog[k].ret, MASK_STATUS2)
           \/ dlog[k].reg = LM83_REG_R_CONFIG /\ Masked(dlog[k].ret, MASK_CONFIG)}

\* the reads of the manufacturer-id register made by the running lm83_detect
IdentReads == {k \in 1 .. Len(dlog) : dlog[k].op = "r" /\ dlog[k].reg = LM83_REG_R_MAN_ID}

\* the signed byte x as the chip holds it
EncodeByte(x) == (x + 256) % 256

\* the registers of the transactions recorded in a log, in order
RegsOf(l) == [k \in 1 .. Len(l) |-> l[k].reg]

\* the registers of the bus reads recorded in a log, in order
ReadsOf(l) == RegsOf(SelectSeq(l, LAMBDA x : x.op = "r"))

\* the sequence a is the beginning of the sequence b
IsPrefix(a, b) == Len(a) <= Len(b) /\ a = SubSeq(b, 1, Len(a))

\* the operations of the transactions recorded in a log, in order
OpsOf(l) == [k \in 1 .. Len(l) |-> l[k].op]

(* ------------------------------------------------------------------ *)
(* C1                                                                 *)
(* ------------------------------------------------------------------ *)

\* C1: among the read calls that meet in one stale window exactly one does the
\* four temperature reads. At most one thread is issuing them at any time; a
\* caller starts them, once it holds the lock, only when the cache is stale by
\* the clock (never filled, older than the limit, or the counter went round
\* since the last refresh), so no second refresh starts in the window the first
\* one opened; every other caller finds the cache valid and leaves with no bus
\* read, and a call issues either all four reads or none.
C1_OneRefreshPerWindow ==
    /\ [](Cardinality({t \in Threads : Refreshing(t)}) <= 1)
    /\ [](\A t \in Threads : pc[t] \in {"up", "fetch", "ret"} => Len(log[t]) \in {0, 4})
    /\ [][\A t \in Threads :
            /\ (pc[t] = "check" /\ pc'[t] = "rd") => TrulyStale
            /\ (pc[t] = "check" /\ pc'[t] = "up") => (valid /\ log'[t] = <<>>)]_vars

\* two calls in flight at once: one did the four reads, the other holds the
\* lock after its test and did none
C1_Witness ==
    \E t, u \in Threads :
        /\ t # u
        /\ pc[t] \in {"fetch", "ret"}
        /\ Len(log[t]) = 4
        /\ pc[u] = "up"
        /\ log[u] = <<>>

(* ------------------------------------------------------------------ *)
(* C2                                                                 *)
(* ------------------------------------------------------------------ *)

\* C2: when one of the four bus reads of a refresh failed, the cache is, before
\* the lock is released, what it was when the refresh began (readings, valid and
\* last_updated), and the read does not hand two results back to its caller.
C2_FailedRefreshCommitsNothing ==
    \A t \in Threads :
        /\ (pc[t] = "up" /\ FailedReads(log[t]) # {}) => <<valid, last_updated, temp>> = snap
        /\ (pc[t] = "ret" /\ FailedReads(log[t]) # {}) => res[t].nrels # 2

(* ------------------------------------------------------------------ *)
(* C3                                                                 *)
(* ------------------------------------------------------------------ *)

\* C3: once lm83_detect returned with a client, every cached limit decodes to
\* the default 127, and a read hands back (decode(raw temperature), 127).
C3_DefaultLimits ==
    /\ (DetectOver /\ ret = 0 /\ alloc) =>
          \A i \in Channels : TEMP_FROM_REG(high[i]) = LM83_INIT_HIGH
    /\ \A t \in Threads :
          (ReadDone(t) /\ wrote[chan[t]] = {}) =>
              /\ res[t].r1 = LM83_INIT_HIGH
              /\ Len(log[t]) = 4 => res[t].r0 = TEMP_FROM_REG(log[t][chan[t] + 1].ret)

(* ------------------------------------------------------------------ *)
(* C4                                                                 *)
(* ------------------------------------------------------------------ *)

\* C4: when a write of the default limit failed during attach, lm83_detect
\* returns an error and nothing of the client is retained.
C4_InitFailureAborts ==
    (DetectOver /\ FailedWrites(dlog) # {}) => (ret # 0 /\ NothingRetained)

(* ------------------------------------------------------------------ *)
(* C5                                                                 *)
(* ------------------------------------------------------------------ *)

\* C5: during lm83_detach_client the bus registration is dropped only after the
\* directory entry, the memory is freed only after both; when the bus layer
\* refuses, the error is returned, nothing is freed and the channels are still
\* registered with the control surface.
C5_DetachOrderAndFailure ==
    call = "detach" =>
        /\ ~attached => ~entry
        /\ ~alloc => (~attached /\ ~entry)
        /\ (apc = "ret" /\ err # 0) => (ret = err /\ alloc /\ attached /\ entry)
        /\ (apc = "ret" /\ err = 0) => (ret = 0 /\ NothingRetained)

(* ------------------------------------------------------------------ *)
(* C6                                                                 *)
(* ------------------------------------------------------------------ *)

\* C6: when a register read of lm83_detect failed on the bus, lm83_detect ends
\* with an error of its own: not with the 0 it returns for an absent chip, not
\* with the "Unsupported chip" verdict, and not with a client.
C6_DetectBusFailure ==
    (DetectOver /\ FailedReads(dlog) # {}) =>
        (ret # 0 /\ msg # "Unsupported chip" /\ NothingRetained)

(* ------------------------------------------------------------------ *)
(* C7                                                                 *)
(* ------------------------------------------------------------------ *)

\* C7: once the detection step read a status or config byte with a masked bit
\* set, the client is never registered with the bus layer or the control
\* surface, lm83_id keeps the value it had, the detection reads stop there, and
\* lm83_detect returns 0 with the client memory freed.
C7_MaskHitNotPresent ==
    (call = "detect" /\ MaskHits # {}) =>
        /\ ~attached
        /\ ~entry
        /\ lm83_id = id0
        /\ MaskHits = {Len(dlog)}
        /\ apc \in {"error1", "ret"}
        /\ apc = "ret" => (~alloc /\ ret = 0)

\* lm83_detect returned after the config register, the third one read, hit
C7_Witness ==
    /\ DetectOver
    /\ MaskHits = {3}

(* ------------------------------------------------------------------ *)
(* C8                                                                 *)
(* ------------------------------------------------------------------ *)

\* C8: once lm83_detect read the manufacturer id, the chip is taken for an
\* LM83 exactly when the register read 0x01; otherwise lm83_detect reports
\* "Unsupported chip", hands out no id, registers nothing and frees the memory.
C8_IdentifiedIffNational ==
    (call = "detect" /\ apc # "ident" /\ IdentReads # {}) =>
        \A k \in IdentReads :
            /\ (kind = lm83) <=> (dlog[k].ret = 1)
            /\ (dlog[k].ret = 1 /\ apc # "fill") => lm83_id = id0 + 1
            /\ (dlog[k].ret # 1) =>
                  /\ ~attached
                  /\ ~entry
                  /\ lm83_id = id0
                  /\ apc \in {"fill", "error1", "ret"}
                  /\ apc # "fill" => msg = "Unsupported chip"
                  /\ apc = "ret" => (~alloc /\ ret = 0)

\* autodetection passed the three masks, then the manufacturer id was another
C8_Witness ==
    /\ DetectOver
    /\ Len(dlog) = 4
    /\ \E k \in IdentReads : dlog[k].ret \notin {1, BUS_ERROR}
    /\ msg = "Unsupported chip"

(* ------------------------------------------------------------------ *)
(* C9                                                                 *)
(* ------------------------------------------------------------------ *)

\* C9: a read of channel i that follows a write of the limit v to channel i
\* hands back the limit v, with or without a refresh in between and whatever
\* the other limits hold; the write sends the byte encode(v) to the limit
\* register of channel i (-10 goes as 246 to register 0x0D of remote2).
C9_WriteThenRead ==
    \A t \in Threads :
        /\ (ReadDone(t) /\ wrote[chan[t]] # {}) => res[t].r1 \in wrote[chan[t]]
        /\ WriteDone(t) =>
              /\ log[t][1].reg = HighWReg(chan[t])
              /\ log[t][1].val = EncodeByte(arg[t])
              /\ (chan[t] = 2 /\ arg[t] = -10) => (log[t][1].reg = 13 /\ log[t][1].val = 246)

\* remote2 was written -10 and a later read, which met a fresh cache and did
\* not refresh, handed -10 back while another limit still holds its fill byte
C9_Witness ==
    \E t \in Threads :
        /\ ReadDone(t)
        /\ chan[t] = 2
        /\ wrote[2] = {-10}
        /\ res[t].r1 = -10
        /\ log[t] = <<>>
        /\ wrote[0] = {}

(* ------------------------------------------------------------------ *)
(* C10                                                                *)
(* ------------------------------------------------------------------ *)

\* C10: the limit is stored before the bus write is attempted; when the bus
\* write failed the cached limit keeps the new value and the caller is told:
\* the handler does not leave *nrels_mag as a successful write leaves it.
C10_WriteFailureReported ==
    \A t \in Threads :
        /\ pc[t] = "send" => high[chan[t]] = EncodeByte(arg[t])
        /\ (WriteDone(t) /\ FailedWrites(log[t]) # {}) =>
              /\ high[chan[t]] = EncodeByte(arg[t])
              /\ res[t].nrels # 1

(* ------------------------------------------------------------------ *)
(* C11                                                                *)
(* ------------------------------------------------------------------ *)

\* C11: a client that lm83_detect has just registered with the bus layer has
\* valid = 0; a read that finds valid = 0 once it holds the lock takes the
\* refresh; a refresh is four bus reads, of the registers 0x00, 0x30, 0x01 and
\* 0x31 in that order, after which valid is 1; and a read call ends having
\* made those four reads once or no bus transaction at all.
C11_FirstReadRefreshes ==
    /\ [](apc \in {"attach", "register"} => ~valid)
    /\ [](\A t \in Threads :
            (pc[t] \in {"up", "fetch"} \/ ReadDone(t)) =>
                \/ log[t] = <<>>
                \/ RegsOf(log[t]) = <<0, 48, 1, 49>> /\ OpsOf(log[t]) = <<"r", "r", "r", "r">>)
    /\ [][\A t \in Threads :
            /\ (pc[t] = "check" /\ pc'[t] # "check" /\ ~valid) => pc'[t] = "rd"
            /\ (pc[t] = "stamp" /\ pc'[t] = "up") =>
                  (valid' /\ RegsOf(log[t]) = <<0, 48, 1, 49>>)]_vars

\* after lm83_detect attached a client, a read through the handler of remote3
\* has done the four reads and is about to fetch its results
C11_Witness ==
    \E t \in Threads :
        /\ lm83_id = 1
        /\ apc = "idle"
        /\ pc[t] = "fetch"
        /\ chan[t] = 3
        /\ Len(log[t]) = 4
        /\ valid

(* ------------------------------------------------------------------ *)
(* C12                                                                *)
(* ------------------------------------------------------------------ *)

\* the pair a finished read handed back
Pair(t) == <<res[t].r0, res[t].r1>>

\* a read that did not refresh hands back, on its channel, the pair the cache
\* gave when the read that did the last refresh fetched its results, which is
\* the pair that read handed back on its own channel
SameAsRefreshingRead ==
    \A t \in Threads :
        (ReadDone(t) /\ seen # <<>> /\ seen[chan[t]] # <<>>) => Pair(t) = seen[chan[t]]

\* C12: a read made while less than 1.5 x HZ ticks have passed since the last
\* refresh does no bus read, whatever the tick counter holds, also when the
\* counter went round since that refresh; and it hands back the pair the
\* refreshing read handed back (no limit was written in between).
C12_FreshReadAnyCounter ==
    /\ []SameAsRefreshingRead
    /\ [][\A t \in Threads :
            (pc[t] = "check" /\ pc'[t] # "check" /\ valid /\ 2 * age < 3 * HZ) =>
                (pc'[t] = "up" /\ log'[t] = <<>>)]_vars

\* C12, amended: a read made while less than 1.5 x HZ ticks have passed since
\* the last refresh, and while the tick counter has not gone round since that
\* refresh, does no bus read; a read that does no bus read hands back the pair
\* the refreshing read handed back (no limit was written in between).
C12_FreshReadNoWrap ==
    /\ []SameAsRefreshingRead
    /\ [][\A t \in Threads :
            (pc[t] = "check" /\ pc'[t] # "check" /\ valid /\ 2 * age < 3 * HZ /\ ~wrapped) =>
                (pc'[t] = "up" /\ log'[t] = <<>>)]_vars

\* one tick after a refresh that read 0x9C everywhere, the counter not having
\* gone round, a read of remote2 did no bus read and handed back -100 again
C12_Witness ==
    \E t \in Threads :
        /\ ReadDone(t)
        /\ chan[t] = 2
        /\ log[t] = <<>>
        /\ age = 1
        /\ ~wrapped
        /\ res[t].r0 = -100
        /\ seen # <<>>
        /\ Pair(t) = seen[2]

(* ------------------------------------------------------------------ *)
(* C13                                                                *)
(* ------------------------------------------------------------------ *)

\* C13: a limit x in -128 .. 127 that was encoded into the cached byte decodes
\* to x again, both right after the store and in the read that follows; the
\* decoded value of a byte b is the one number of -128 .. 127 that is b modulo
\* 256; decode maps the 256 bytes one to one onto -128 .. 127, and 0, 127,
\* 128, 255 to 0, 127, -128, -1.
C13_CodecBijection ==
    /\ \A t \in Threads :
          /\ pc[t] = "send" =>
                /\ high[chan[t]] \in 0 .. 255
                /\ TEMP_FROM_REG(high[chan[t]]) = arg[t]
          /\ ReadDone(t) =>
                /\ wrote[chan[t]] # {} => wrote[chan[t]] = {res[t].r1}
                /\ res[t].r1 \in -128 .. 127
                /\ (res[t].r1 - high[chan[t]]) % 256 = 0
    /\ {TEMP_FROM_REG(b) : b \in 0 .. 255} = -128 .. 127
    /\ Cardinality({TEMP_FROM_REG(b) : b \in 0 .. 255}) = 256
    /\ \A x \in -128 .. 127 : TEMP_FROM_REG(TEMP_TO_REG(x)) = x
    /\ TEMP_FROM_REG(0) = 0
    /\ TEMP_FROM_REG(127) = 127
    /\ TEMP_FROM_REG(128) = -128
    /\ TEMP_FROM_REG(255) = -1

\* -128 was written, stored as the byte 0x80 and read back as -128
C13_Witness ==
    \E t \in Threads :
        /\ ReadDone(t)
        /\ wrote[0] = {-128}
        /\ high[0] = 128
        /\ res[t].r1 = -128

(* ------------------------------------------------------------------ *)
(* C14                                                                *)
(* ------------------------------------------------------------------ *)

\* C14: a read fetches its two results from the cache while it holds
\* update_lock, and no other thread is in the middle of the bus reads of a
\* refresh at that moment.
C14_FetchUnderLock ==
    [][\A t \in Threads :
          (pc[t] = "fetch" /\ pc'[t] = "ret") =>
              /\ update_lock = t
              /\ \A u \in Threads \ {t} : ~Refreshing(u)]_vars

(* ------------------------------------------------------------------ *)
(* C15                                                                *)
(* ------------------------------------------------------------------ *)

\* thread t is between down and up of lm83_update_client
InLock(t) == pc[t] \in {"check", "rd", "stamp", "up"}

\* C15: at most one thread is between down and up; update_lock names that
\* thread and is free when there is none, so it is released on every way out
\* of lm83_update_client (fresh cache, refresh done, bus read failed); and a
\* step that changes a reading, valid or last_updated is a step of the thread
\* that holds the lock.
C15_MutualExclusion ==
    /\ [](Cardinality({t \in Threads : InLock(t)}) <= 1)
    /\ [](\A t \in Threads : InLock(t) <=> update_lock = t)
    /\ []((\A t \in Threads : ~InLock(t)) => update_lock = 0)
    /\ [][<<temp, valid, last_updated>>' # <<temp, valid, last_updated>> =>
            /\ update_lock \in Threads
            /\ update_lock' = update_lock
            /\ pc[update_lock] \in {"rd", "stamp"}
            /\ <<pc, log>>' # <<pc, log>>
            /\ \A u \in Threads \ {update_lock} : pc'[u] = pc[u] /\ log'[u] = log[u]]_vars

\* a read whose bus reads failed has left lm83_update_client, and another
\* thread, which had to wait for it, has taken the lock since and is about to
\* release it without a bus read
C15_Witness ==
    \E t, u \in Threads :
        /\ t # u
        /\ pc[t] \in {"fetch", "ret"}
        /\ FailedReads(log[t]) # {}
        /\ update_lock = u
        /\ pc[u] = "up"
        /\ log[u] = <<>>

(* ------------------------------------------------------------------ *)
(* C16                                                                *)
(* ------------------------------------------------------------------ *)

\* C16: the thread that holds the lock goes on to the bus reads exactly when
\* the cache is not valid, or jiffies - last_updated is above 1.5 x HZ, or
\* jiffies is below last_updated, and otherwise to the release of the lock; a
\* refresh is four bus reads and leaves last_updated at the current jiffies;
\* a read that left lm83_update_client made four bus reads or none.
C16_RefreshIffStale ==
    /\ [](\A t \in Threads : pc[t] \in {"up", "fetch"} => Len(log[t]) \in {0, 4})
    /\ [][\A t \in Threads :
            /\ (pc[t] = "check" /\ pc'[t] # "check") =>
                  /\ pc'[t] \in {"rd", "up"}
                  /\ pc'[t] = "rd" <=>
                        \/ ~valid
                        \/ 2 * (jiffies - last_updated) > 3 * HZ
                        \/ jiffies < last_updated
            /\ (pc[t] = "stamp" /\ pc'[t] = "up") =>
                  /\ Len(log[t]) = 4
                  /\ last_updated' = jiffies
                  /\ valid']_vars

\* a refresh taken for the elapsed time alone: the cache was valid, the counter
\* has not gone round, more than the limit has passed, the four reads are done
C16_Witness ==
    \E t \in Threads :
        /\ pc[t] = "stamp"
        /\ Len(log[t]) = 4
        /\ valid
        /\ ~wrapped
        /\ age > Window
        /\ jiffies - last_updated > Window

(* ------------------------------------------------------------------ *)
(* C17                                                                *)
(* ------------------------------------------------------------------ *)

\* C17: when i2c_attach_client or i2c_register_entry failed, lm83_detect
\* returns that error; the memory is freed only once the client is registered
\* neither with the bus layer nor with the control surface, and after the
\* return nothing of the client is left.
C17_AttachRollback ==
    /\ (call = "detect" /\ apc = "error1" /\ err # 0) => (alloc /\ ~attached /\ ~entry)
    /\ (DetectOver /\ err # 0) => (ret = err /\ NothingRetained)

(* ------------------------------------------------------------------ *)
(* C18                                                                *)
(* ------------------------------------------------------------------ *)

\* lm83_detect is past the identification step
PastIdent ==
    apc \in {"fill", "attach", "register", "init0", "init1", "init2", "init3", "error2"}

\* C18: called with a negative kind, lm83_detect reads status 1 (0x02),
\* status 2 (0x35) and config (0x03) in that order and nothing else, then the
\* manufacturer id (0xFE) exactly when the three reads passed their masks;
\* called with kind 0 it reads the manufacturer id and no other register;
\* called with a positive kind it reads no register at all, before or after
\* the client is registered.
C18_KindDecidesReads ==
    call = "detect" =>
        /\ forced < 0 =>
              /\ IsPrefix(ReadsOf(dlog), <<2, 53, 3, 254>>)
              /\ Len(ReadsOf(dlog)) = 4 =>
                    (MaskHits = {} /\ \A k \in 1 .. 3 : dlog[k].ret >= 0)
              /\ (Len(ReadsOf(dlog)) = 3 /\ MaskHits = {} /\ FailedReads(dlog) = {}) =>
                    apc = "ident"
              /\ PastIdent => Len(ReadsOf(dlog)) = 4
        /\ forced = 0 =>
              /\ ReadsOf(dlog) \in {<<>>, <<254>>}
              /\ PastIdent => ReadsOf(dlog) = <<254>>
        /\ forced > 0 => ReadsOf(dlog) = <<>>

\* called with kind 0, lm83_detect attached a client after one bus read, of
\* the manufacturer id, and the four writes of the default limit
C18_Witness ==
    /\ DetectOver
    /\ forced = 0
    /\ ret = 0
    /\ attached
    /\ entry
    /\ ReadsOf(dlog) = <<254>>
    /\ Len(dlog) = 5

(* ------------------------------------------------------------------ *)
(* C19                                                                *)
(* ------------------------------------------------------------------ *)

\* the part of the cache a refresh fills
Readings == <<temp, valid, last_updated>>

\* thread t takes the step
Steps(t) == <<pc[t], log[t], res[t]>>' # <<pc[t], log[t], res[t]>>

\* C19: a step of a read leaves every cached limit alone and sends nothing to
\* the chip; the readings, valid and last_updated change only in a step of a
\* refresh; the store of a write changes the limit of its channel and nothing
\* else of the cache, and its bus transaction is one write to the limit
\* register of that channel (0x0B, 0x50, 0x0D, 0x52); info, and a write with
\* no value, return at once with the cache as it was and no bus transaction.
C19_Frame ==
    /\ [](\A t \in Threads : (pc[t] = "ret" /\ res[t].nrels = 0) => log[t] = <<>>)
    /\ [][\A t \in Threads :
            /\ (InRead(t) /\ Steps(t)) =>
                  /\ high' = high
                  /\ \A k \in 1 .. Len(log'[t]) : log'[t][k].op = "r"
            /\ (Readings' # Readings /\ Steps(t)) => pc[t] \in {"rd", "stamp"}
            /\ (pc[t] = "store" /\ Steps(t)) =>
                  /\ Readings' = Readings
                  /\ \A j \in Channels \ {chan[t]} : high'[j] = high[j]
                  /\ high'[chan[t]] = EncodeByte(arg[t])
                  /\ log'[t] = log[t]
            /\ (pc[t] = "send" /\ Steps(t)) =>
                  /\ Readings' = Readings
                  /\ high' = high
                  /\ Len(log'[t]) = 1
                  /\ log'[t][1].op = "w"
                  /\ log'[t][1].reg = <<11, 80, 13, 82>>[chan[t] + 1]
            /\ (pc[t] = "idle" /\ pc'[t] = "ret") =>
                  /\ Readings' = Readings
                  /\ high' = high
                  /\ log'[t] = <<>>]_vars

\* after a refresh, -10 was written to remote2: its limit is 0xF6 and went to
\* register 0x0D, the other limits still hold their fill byte 0x5A, the
\* readings are those of the refresh
C19_Witness ==
    \E t \in Threads :
        /\ WriteDone(t)
        /\ chan[t] = 2
        /\ log[t][1].reg = 13
        /\ high = [i \in Channels |-> IF i = 2 THEN 246 ELSE 90]
        /\ valid
        /\ temp = [i \in Channels |-> 80]

(* ------------------------------------------------------------------ *)
(* C20                                                                *)
(* ------------------------------------------------------------------ *)

\* C20: the client memory is never freed while a thread is inside a handler
\* with an access to the client still ahead of it (waiting for or holding
\* update_lock, in the bus reads, before its fetch or its bus write), so no
\* thread is left inside a handler with a pointer to freed memory.
C20_NoFreeInFlight ==
    /\ ~alloc => InFlight = {}
    /\ dangling = {}

====
